---- MODULE Spec2Model ----
(***************************************************************************)
(* A model of nied: the Source sampling contract (Color, Image, Offset,    *)
(* Scale, Blur, slices of sources), the Color algebra and the parallel     *)
(* rasterizer `make`.                                                      *)
(*                                                                         *)
(* Numbers.  i32 values keep their 32-bit width; every operator below      *)
(* computes without leaving that range.  An f32 is a record                *)
(* [sgn, m, e] standing for sgn * m * 2^e with m <= 2^24 (a 24-bit         *)
(* significand); int -> f32 rounds to nearest, ties to even, as the        *)
(* hardware does.  Colour channels are exact rationals <<n, d>>; the       *)
(* inputs are chosen so that every channel the claims compare is exactly   *)
(* representable in f32 (see the note at BlurLoop for the one place f32    *)
(* rounds a channel).                                                      *)
(***************************************************************************)
EXTENDS Integers, Sequences, FiniteSets, TLC

VARIABLES tree, pos, build, out, size, buf, next, held, writes, pc

vars == <<tree, pos, build, out, size, buf, next, held, writes, pc>>

sampleVars == <<tree, pos, build, out>>

makeVars == <<size, buf, next, held, writes, pc>>

(***************************************************************************)
(* Bounds of the model.                                                    *)
(***************************************************************************)
MaxCoord == 2

MaxRadius == 2

MaxLayers == 2

MaxWidth == 2

MaxHeight == 2

NumWorkers == 2

(***************************************************************************)
(* Program constants.                                                      *)
(***************************************************************************)
I32_MAX == 2147483647

I32_MIN == -I32_MAX - 1

N_CHANNELS == 4

U8_MAX == 255

F32_MANTISSA_DIGITS == 24

(***************************************************************************)
(* 32-bit integer arithmetic.                                              *)
(***************************************************************************)
Abs(n) == IF n < 0 THEN -n ELSE n

RECURSIVE Pow2(_)
Pow2(k) == IF k = 0 THEN 1 ELSE 2 * Pow2(k - 1)

\* a + b leaves the i32 range (a build with overflow checks panics there).
AddOverflows(a, b) ==
    IF b >= 0 THEN a > I32_MAX - b ELSE a < I32_MIN - b

\* i32::wrapping_add: a + b modulo 2^32.
WrappingAdd(a, b) ==
    IF ~AddOverflows(a, b) THEN a + b
    ELSE IF b >= 0 THEN I32_MIN + ((a - I32_MAX - 1) + b)
    ELSE I32_MAX + (((a - I32_MIN) + b) + 1)

\* i32::wrapping_sub: a - b modulo 2^32.
WrappingSub(a, b) ==
    IF b = I32_MIN THEN WrappingAdd(a, I32_MIN) ELSE WrappingAdd(a, -b)

(***************************************************************************)
(* Exact rationals <<n, d>>, d > 0, in lowest terms: the channel values.   *)
(***************************************************************************)
RECURSIVE GCD(_, _)
GCD(a, b) == IF b = 0 THEN a ELSE GCD(b, a % b)

RNorm(n, d) == LET g == GCD(Abs(n), d) IN <<n \div g, d \div g>>

Zero == <<0, 1>>

One == <<1, 1>>

Half == <<1, 2>>

RAdd(p, q) == RNorm(p[1] * q[2] + q[1] * p[2], p[2] * q[2])

RSub(p, q) == RNorm(p[1] * q[2] - q[1] * p[2], p[2] * q[2])

RMul(p, q) == RNorm(p[1] * q[1], p[2] * q[2])

RLt(p, q) == p[1] * q[2] < q[1] * p[2]

\* f32::max on two numbers (no NaN arises: see Overlay).
RMax(p, q) == IF RLt(p, q) THEN q ELSE p

(***************************************************************************)
(* f32 values sgn * m * 2^e, and the conversions the code applies.         *)
(***************************************************************************)
F32(sgn, m, e) == [sgn |-> sgn, m |-> m, e |-> e]

\* The least e >= 0 with a < 2^(24 + e), for 0 <= a <= I32_MAX.
RECURSIVE ExpOf(_, _)
ExpOf(a, e) ==
    IF a \div Pow2(e) < Pow2(F32_MANTISSA_DIGITS) THEN e ELSE ExpOf(a, e + 1)

\* A plausible slip: an exact conversion (as if f32 held every i32).
I32ToF32Exact(x) ==
    IF x = I32_MIN THEN F32(-1, 1, 31)
    ELSE F32(IF x < 0 THEN -1 ELSE 1, Abs(x), 0)

\* `x as f32`: round to nearest, ties to even, on a 24-bit significand.
I32ToF32(x) ==
    IF x = I32_MIN THEN F32(-1, 1, 31)
    ELSE LET a == Abs(x)
             e == ExpOf(a, 0)
             s == Pow2(e)
             q == a \div s
             r == a % s
             up == 2 * r > s \/ (2 * r = s /\ q % 2 = 1)
         IN F32(IF x < 0 THEN -1 ELSE 1, IF up THEN q + 1 ELSE q, e)

\* a * b for f32: exact when the product's significand fits 24 bits, which
\* holds for every factor of the model (a power of two).
F32Mul(a, b) == F32(a.sgn * b.sgn, a.m * b.m, a.e + b.e)

\* 1. / a and a / b for a power of two divisor: exact.
F32Recip(a) == F32(a.sgn, a.m, -a.e)

F32Div(a, b) == F32(a.sgn * b.sgn, a.m, a.e - b.e)

\* `v as i32`: truncation toward zero, saturating at the i32 range (a
\* significand is at most 2^24, so nothing below 2^7 * m reaches 2^31).
F32ToI32(v) ==
    IF v.m = 0 THEN 0
    ELSE IF v.e >= 0
         THEN IF v.e >= 31 \/ (v.e >= 7 /\ v.m >= Pow2(31 - v.e))
              THEN (IF v.sgn > 0 THEN I32_MAX ELSE I32_MIN)
              ELSE v.sgn * (v.m * Pow2(v.e))
         ELSE IF -v.e >= 30 THEN 0
              ELSE v.sgn * (v.m \div Pow2(-v.e))

\* v.abs().fract() as a rational in [0, 1).
F32AbsFract(v) ==
    IF v.e >= 0 \/ v.m = 0 THEN Zero
    ELSE LET d == Pow2(-v.e) IN RNorm(v.m % d, d)

\* v > f32::EPSILON (2^-23), for the power-of-two factors of the model.
F32GtEpsilon(v) == v.sgn > 0 /\ v.m > 0 /\ (v.e > -23 \/ (v.e = -23 /\ v.m > 1))

(***************************************************************************)
(* Color (color.rs).                                                       *)
(***************************************************************************)
Color(r, g, b, a) == [r |-> r, g |-> g, b |-> b, a |-> a]

Default == Color(Zero, Zero, Zero, Zero)

\* f32 -> u8 `as` cast of a channel times 255: truncated, saturating.
ToU8(q) ==
    IF q[1] <= 0 THEN 0
    ELSE LET t == q[1] \div q[2] IN IF t > U8_MAX THEN U8_MAX ELSE t

FromByteArray(v) ==
    Color(RNorm(v[1], U8_MAX), RNorm(v[2], U8_MAX),
          RNorm(v[3], U8_MAX), RNorm(v[4], U8_MAX))

IntoByteArray(c) ==
    << ToU8(RMul(c.r, <<U8_MAX, 1>>)), ToU8(RMul(c.g, <<U8_MAX, 1>>)),
       ToU8(RMul(c.b, <<U8_MAX, 1>>)), ToU8(RMul(c.a, <<U8_MAX, 1>>)) >>

\* A plausible slip: `a <= 1.`, which never lets a stack stop at a = 1.
IsTransparentInclusive(c) == ~RLt(One, c.a)

IsTransparent(c) == RLt(c.a, One)

Lerp(x, y, t) == RAdd(x, RMul(t, RSub(y, x)))

Overlay(self, rhs) ==
    Color(Lerp(self.r, rhs.r, rhs.a), Lerp(self.g, rhs.g, rhs.a),
          Lerp(self.b, rhs.b, rhs.a), RMax(self.a, rhs.a))

ColorLerp(self, rhs, t) ==
    Color(Lerp(self.r, rhs.r, t), Lerp(self.g, rhs.g, t),
          Lerp(self.b, rhs.b, t), Lerp(self.a, rhs.a, t))

AddAssign(self, rhs) ==
    Color(RAdd(self.r, rhs.r), RAdd(self.g, rhs.g),
          RAdd(self.b, rhs.b), RAdd(self.a, rhs.a))

MulAssignF32(self, t) ==
    Color(RMul(self.r, t), RMul(self.g, t), RMul(self.b, t), RMul(self.a, t))

(***************************************************************************)
(* Borders (source.rs).  None is [some |-> FALSE].                         *)
(***************************************************************************)
NoBorders == [some |-> FALSE, w |-> <<0, 0>>, h |-> <<0, 0>>]

SomeBorders(w, h) == [some |-> TRUE, w |-> w, h |-> h]

Contains(b, p) ==
    p[1] >= b.w[1] /\ p[1] <= b.w[2] /\ p[2] >= b.h[1] /\ p[2] <= b.h[2]

(***************************************************************************)
(* The source tree: one record per implementor of the Source trait.        *)
(***************************************************************************)
ColorNode(c) == [kind |-> "Color", col |-> c]

\* An Image: its layout, its size and its pixel grid, (x, y) -> bytes.
ImageNode(layout, w, h, data) ==
    [kind |-> "Image", layout |-> layout, w |-> w, h |-> h, data |-> data]

OffsetNew(source, offset) ==
    [kind |-> "Offset", source |-> source, offset |-> offset]

\* Scale::new keeps the reciprocal of the factor it is given.
ScaleNew(source, factor, filter) ==
    [kind |-> "Scale", source |-> source, factor |-> F32Recip(factor),
     filter |-> filter]

BlurNew(source, radius) ==
    [kind |-> "Blur", source |-> source, radius |-> radius]

SliceNode(layers) == [kind |-> "Stack", layers |-> layers]

\* The outcome of one source() call: the colour, whether the call panicked,
\* and the calls it made on its direct children, in order, as
\* <<child index, position>>.
Outcome(col, fault, trace) == [col |-> col, fault |-> fault, trace |-> trace]

Panic(trace) == Outcome(Default, TRUE, trace)

(***************************************************************************)
(* Image (image.rs) and its Source implementation.                         *)
(***************************************************************************)
\* Pixel::to_rgba of the image crate, per layout.
ToRgba(layout, px) ==
    CASE layout = "Luma" -> <<px[1], px[1], px[1], U8_MAX>>
      [] layout = "LumaA" -> <<px[1], px[1], px[1], px[2]>>
      [] layout = "Rgb" -> <<px[1], px[2], px[3], U8_MAX>>
      [] OTHER -> px

ImageSize(s) == <<s.w, s.h>>

\* Image::color: get_pixel_checked, then the colour; none outside the grid.
ImageColor(s, p) ==
    IF p[1] < s.w /\ p[2] < s.h
    THEN [some |-> TRUE, col |-> FromByteArray(ToRgba(s.layout, s.data[p]))]
    ELSE [some |-> FALSE, col |-> Default]

\* i32 -> u32 try_into succeeds exactly on the non-negative values.
ImageSource(s, p) ==
    IF p[1] >= 0 /\ p[2] >= 0
    THEN Outcome(ImageColor(s, p).col, FALSE, <<>>)
    ELSE Outcome(Default, FALSE, <<>>)

\* u32::saturating_sub(1), then the `as i32` cast (the sizes of the model
\* are far below 2^31, where the cast is the identity).
ImageBorders(s) ==
    LET sz == ImageSize(s)
    IN SomeBorders(<<0, IF sz[1] = 0 THEN 0 ELSE sz[1] - 1>>,
                   <<0, IF sz[2] = 0 THEN 0 ELSE sz[2] - 1>>)

ColorSource(s, p) == Outcome(s.col, FALSE, <<>>)

(***************************************************************************)
(* The combinators.  Source and Borders dispatch on the implementor.       *)
(***************************************************************************)
RECURSIVE Source(_, _)
RECURSIVE Borders(_)

\* What a combinator hands back after one call on its child at q.
Forwarded(r, q) == Outcome(r.col, r.fault, <<<<1, q>>>>)

\* self.source.source(q)
Forward(child, q) == Forwarded(Source(child, q), q)

\* Calls on the one child at the positions ps, in order, up to the first
\* that panics: the colours returned and the calls made.
RECURSIVE Calls(_, _)
CallsJoin(r, rest, p) ==
    [cols |-> <<r.col>> \o rest.cols, fault |-> rest.fault,
     trace |-> <<<<1, p>>>> \o rest.trace]

CallsStep(r, child, ps) ==
    IF r.fault
    THEN [cols |-> <<>>, fault |-> TRUE, trace |-> <<<<1, Head(ps)>>>>]
    ELSE CallsJoin(r, Calls(child, Tail(ps)), Head(ps))

Calls(child, ps) ==
    IF ps = <<>> THEN [cols |-> <<>>, fault |-> FALSE, trace |-> <<>>]
    ELSE CallsStep(Source(child, Head(ps)), child, ps)

\* A plausible slip: translating the query the way the borders are.
OffsetSourceAdd(s, p) ==
    Forward(s.source, <<WrappingAdd(p[1], s.offset[1]),
                        WrappingAdd(p[2], s.offset[2])>>)

OffsetSource(s, p) ==
    Forward(s.source, <<WrappingSub(p[1], s.offset[1]),
                        WrappingSub(p[2], s.offset[2])>>)

\* The closure Offset::borders maps over the child's borders.
OffsetMap(b, offset) ==
    IF ~b.some THEN NoBorders
    ELSE SomeBorders(<<WrappingSub(b.w[1], offset[1]),
                       WrappingSub(b.w[2], offset[1])>>,
                     <<WrappingSub(b.h[1], offset[2]),
                       WrappingSub(b.h[2], offset[2])>>)

OffsetBorders(s) == OffsetMap(Borders(s.source), s.offset)

\* The branches of linear_points on the fraction f, from the first point a.
LinearMatch(a, f) ==
    IF RLt(f, Half) THEN <<a, WrappingSub(a, 1), RSub(Half, f)>>
    ELSE IF f = Half THEN <<a, a, Zero>>
    ELSE <<a, WrappingAdd(a, 1), RSub(f, Half)>>

\* Rounding down: floor(v) for an f32 v, saturating.
F32Floor(t, v) ==
    IF v.sgn < 0 /\ F32AbsFract(v) # Zero /\ t # I32_MIN THEN t - 1 ELSE t

\* A plausible slip: rounding down (floor) where the code truncates.
LinearPointsFloor(v) == LinearMatch(F32Floor(F32ToI32(v), v), F32AbsFract(v))

\* linear_points: the two sample points of an axis and the weight.
LinearPoints(v) == LinearMatch(F32ToI32(v), F32AbsFract(v))

\* The child-space coordinate of an output coordinate.
ScaleCoord(s, v) == F32Mul(s.factor, I32ToF32(v))

\* The child positions the Linear filter samples, in the order it does.
LinearCalls(lx, ly) ==
    CASE lx[1] = lx[2] /\ ly[1] = ly[2] -> << <<lx[1], ly[1]>> >>
      [] lx[1] # lx[2] /\ ly[1] = ly[2] -> << <<lx[1], ly[1]>>, <<lx[2], ly[1]>> >>
      [] lx[1] = lx[2] /\ ly[1] # ly[2] -> << <<lx[1], ly[1]>>, <<lx[1], ly[2]>> >>
      [] OTHER -> << <<lx[1], ly[1]>>, <<lx[2], ly[1]>>,
                     <<lx[1], ly[2]>>, <<lx[2], ly[2]>> >>

\* The interpolation of the sampled colours c.cols.
LinearBlend(c, lx, ly) ==
    IF c.fault THEN Panic(c.trace)
    ELSE Outcome(
           CASE lx[1] = lx[2] /\ ly[1] = ly[2] -> c.cols[1]
             [] lx[1] # lx[2] /\ ly[1] = ly[2] -> ColorLerp(c.cols[1], c.cols[2], lx[3])
             [] lx[1] = lx[2] /\ ly[1] # ly[2] -> ColorLerp(c.cols[1], c.cols[2], ly[3])
             [] OTHER -> ColorLerp(ColorLerp(c.cols[1], c.cols[2], lx[3]),
                                   ColorLerp(c.cols[3], c.cols[4], lx[3]), ly[3]),
           FALSE, c.trace)

ScaleLinear(child, lx, ly) ==
    LinearBlend(Calls(child, LinearCalls(lx, ly)), lx, ly)

ScaleSource(s, p) ==
    IF s.filter = "Near"
    THEN Forward(s.source, <<F32ToI32(ScaleCoord(s, p[1])),
                             F32ToI32(ScaleCoord(s, p[2]))>>)
    ELSE ScaleLinear(s.source, LinearPoints(ScaleCoord(s, p[1])),
                     LinearPoints(ScaleCoord(s, p[2])))

\* (v as f32 / self.factor) as i32
ScaleBound(factor, v) == F32ToI32(F32Div(I32ToF32(v), factor))

\* The closure Scale::borders maps over the child's borders.
ScaleMap(b, factor) ==
    IF ~b.some THEN NoBorders
    ELSE SomeBorders(<<ScaleBound(factor, b.w[1]), ScaleBound(factor, b.w[2])>>,
                     <<ScaleBound(factor, b.h[1]), ScaleBound(factor, b.h[2])>>)

ScaleBorders(s) == ScaleMap(Borders(s.source), s.factor)

\* The closure Blur::borders maps over the child's borders.
BlurMap(b, radius) ==
    IF ~b.some THEN NoBorders
    ELSE SomeBorders(<<WrappingSub(b.w[1], radius), WrappingAdd(b.w[2], radius)>>,
                     <<WrappingSub(b.h[1], radius), WrappingAdd(b.h[2], radius)>>)

BlurBorders(s) == BlurMap(Borders(s.source), s.radius)

InDisc(dx, dy, rsqr) == dx * dx + dy * dy < rsqr

\* The two nested loops of Blur::source, flattened: step k is
\* dy = -radius + k / (2 radius), dx = -radius + k % (2 radius).  `x + dx`
\* and `y + dy` are plain additions: they panic in a build with overflow
\* checks and wrap in one without.  The final `col *= 1. / i as f32` is
\* taken exactly; in f32 the reciprocal is rounded when i is no power of
\* two, which changes no channel from zero to non-zero or back.
RECURSIVE BlurLoop(_, _, _, _, _, _)
\* A plausible slip: the division without its guard.  0 * (1. / 0.) is NaN,
\* written <<0, 0>> here.
BlurAverageUnguarded(col, i) ==
    IF i > 0 THEN MulAssignF32(col, <<1, i>>)
    ELSE Color(<<0, 0>>, <<0, 0>>, <<0, 0>>, <<0, 0>>)

\* if i > 0 { col *= 1. / i as f32 }
BlurAverage(col, i) == IF i > 0 THEN MulAssignF32(col, <<1, i>>) ELSE col

BlurAdd(s, p, k, col, i, trace, r) ==
    IF r.fault THEN Panic(trace)
    ELSE BlurLoop(s, p, k + 1, AddAssign(col, r.col), i + 1, trace)

BlurCall(s, p, k, col, i, trace, q) ==
    BlurAdd(s, p, k, col, i, Append(trace, <<1, q>>), Source(s.source, q))

BlurStep(s, p, k, col, i, trace, dx, dy) ==
    IF ~InDisc(dx, dy, s.radius * s.radius)
    THEN BlurLoop(s, p, k + 1, col, i, trace)
    ELSE IF build = "debug" /\ (AddOverflows(p[1], dx) \/ AddOverflows(p[2], dy))
         THEN Panic(trace)
         ELSE BlurCall(s, p, k, col, i, trace,
                       <<WrappingAdd(p[1], dx), WrappingAdd(p[2], dy)>>)

BlurLoop(s, p, k, col, i, trace) ==
    IF k >= (2 * s.radius) * (2 * s.radius)
    THEN Outcome(BlurAverage(col, i), FALSE, trace)
    ELSE BlurStep(s, p, k, col, i, trace,
                  (k % (2 * s.radius)) - s.radius,
                  (k \div (2 * s.radius)) - s.radius)

\* The early return of Blur::source outside its own borders.
BlurWithin(b, s, p) ==
    IF b.some /\ ~Contains(b, p) THEN Outcome(Default, FALSE, <<>>)
    ELSE BlurLoop(s, p, 0, Default, 0, <<>>)

BlurSource(s, p) == BlurWithin(BlurBorders(s), s, p)

\* The loop of <[S] as Source>::source from layer k on.
RECURSIVE SliceLoop(_, _, _, _, _)
\* A plausible slip: the loop without its break.
SliceBreakNever(s, p, k, acc, trace) == SliceLoop(s, p, k + 1, acc, trace)

\* if !res.is_transparent() { break; }
SliceBreak(s, p, k, acc, trace) ==
    IF ~IsTransparent(acc) THEN Outcome(acc, FALSE, trace)
    ELSE SliceLoop(s, p, k + 1, acc, trace)

SliceStep(s, p, k, res, trace, r) ==
    IF r.fault THEN Panic(trace)
    ELSE SliceBreak(s, p, k, Overlay(res, r.col), trace)

SliceLoop(s, p, k, res, trace) ==
    IF k > Len(s.layers) THEN Outcome(res, FALSE, trace)
    ELSE SliceStep(s, p, k, res, Append(trace, <<k, p>>), Source(s.layers[k], p))

SliceSource(s, p) == SliceLoop(s, p, 1, Default, <<>>)

Source(s, p) ==
    CASE s.kind = "Color" -> ColorSource(s, p)
      [] s.kind = "Image" -> ImageSource(s, p)
      [] s.kind = "Offset" -> OffsetSource(s, p)
      [] s.kind = "Scale" -> ScaleSource(s, p)
      [] s.kind = "Blur" -> BlurSource(s, p)
      [] OTHER -> SliceSource(s, p)

\* Color and slices keep the trait's default borders(): None.
Borders(s) ==
    CASE s.kind = "Image" -> ImageBorders(s)
      [] s.kind = "Offset" -> OffsetBorders(s)
      [] s.kind = "Scale" -> ScaleBorders(s)
      [] s.kind = "Blur" -> BlurBorders(s)
      [] OTHER -> NoBorders

(***************************************************************************)
(* The inputs: colours, images, and the source trees built from them.      *)
(***************************************************************************)
Red == Color(One, Zero, Zero, One)

BlueHalf == Color(Zero, Zero, One, Half)

\* A 2x2 RGBA image: red, green / blue, white with alpha 0.
Rgba2x2 ==
    ImageNode("Rgba", 2, 2,
              [p \in (0 .. 1) \X (0 .. 1) |->
                 CASE p = <<0, 0>> -> <<U8_MAX, 0, 0, U8_MAX>>
                   [] p = <<1, 0>> -> <<0, U8_MAX, 0, U8_MAX>>
                   [] p = <<0, 1>> -> <<0, 0, U8_MAX, U8_MAX>>
                   [] OTHER -> <<U8_MAX, U8_MAX, U8_MAX, 0>>])

\* A 1x2 gray image: white over black.
Luma1x2 ==
    ImageNode("Luma", 1, 2,
              [p \in {0} \X (0 .. 1) |-> IF p[2] = 0 THEN <<U8_MAX>> ELSE <<0>>])

\* A zero-sized image.
Empty0x0 == ImageNode("Rgba", 0, 0, [p \in {} |-> <<0, 0, 0, 0>>])

Leaves == {ColorNode(Red), ColorNode(BlueHalf), Rgba2x2, Luma1x2, Empty0x0}

\* Coordinates: a window around the origin, the ends of the i32 range,
\* 2^24 (the last of the integers an f32 holds without a gap) and the first
\* integers an f32 cannot hold (2^24 + 1 and its negation).
Coords ==
    (-MaxCoord .. MaxCoord)
      \cup {I32_MIN, I32_MIN + 1, I32_MAX - 1, I32_MAX, Pow2(F32_MANTISSA_DIGITS),
            Pow2(F32_MANTISSA_DIGITS) + 1, -Pow2(F32_MANTISSA_DIGITS) - 1}

\* The second coordinate runs over a smaller set of the same kinds.
YCoords ==
    (-1 .. 1) \cup {I32_MIN, I32_MAX, -Pow2(F32_MANTISSA_DIGITS) - 1}

Positions == Coords \X YCoords

OffsetVectors == {<<1, -1>>, <<-2, 1>>, <<I32_MIN + 1, I32_MAX>>}

\* Scale factors 0.5, 1 and 4, all accepted by Scale::new's assertion.
Factors == {f \in {F32(1, 1, -1), F32(1, 1, 0), F32(1, 1, 2)} : F32GtEpsilon(f)}

Filters == {"Near", "Linear"}

Combinators(S) ==
    {OffsetNew(s, o) : s \in S, o \in OffsetVectors}
      \cup {ScaleNew(s, f, fl) : s \in S, f \in Factors, fl \in Filters}
      \cup {BlurNew(s, r) : s \in S, r \in 0 .. MaxRadius}

Layers == {ColorNode(Red), ColorNode(BlueHalf), Rgba2x2}

Slices ==
    {SliceNode(l) : l \in UNION {[1 .. n -> Layers] : n \in 1 .. MaxLayers}}

\* The stack of the end-to-end scenario: opaque red under half-alpha blue.
RedUnderBlue == SliceNode(<<ColorNode(Red), ColorNode(BlueHalf)>>)

BlueUnderImage == SliceNode(<<ColorNode(BlueHalf), Rgba2x2>>)

\* The children of the two-level trees.
Inner ==
    {OffsetNew(Rgba2x2, <<1, -1>>), OffsetNew(Rgba2x2, <<I32_MIN + 1, I32_MAX>>),
     ScaleNew(Rgba2x2, F32(1, 1, 2), "Linear"), BlurNew(Rgba2x2, 1),
     BlurNew(ColorNode(Red), MaxRadius)}

Trees ==
    Leaves \cup Slices
      \cup Combinators(Leaves \cup {RedUnderBlue, BlueUnderImage})
      \cup Combinators(Inner)

Builds == {"debug", "release"}

(***************************************************************************)
(* Sampling: one source() call on the root of a tree.                      *)
(***************************************************************************)
NoOut == [done |-> FALSE, col |-> Default, fault |-> FALSE, trace |-> <<>>]

Done(r) == [done |-> TRUE, col |-> r.col, fault |-> r.fault, trace |-> r.trace]

MakeIdle ==
    /\ size = <<0, 0>>
    /\ buf = <<>>
    /\ next = 0
    /\ held = [w \in 1 .. NumWorkers |-> {}]
    /\ writes = <<>>
    /\ pc = "idle"

Init ==
    /\ tree \in Trees
    /\ pos \in Positions
    /\ build \in Builds
    /\ out = NoOut
    /\ MakeIdle

Call(kind, r) ==
    /\ ~out.done
    /\ tree.kind = kind
    /\ out' = Done(r)
    /\ UNCHANGED <<tree, pos, build, makeVars>>

CallColor == Call("Color", ColorSource(tree, pos))

CallImage == Call("Image", ImageSource(tree, pos))

CallOffset == Call("Offset", OffsetSource(tree, pos))

CallScale == Call("Scale", ScaleSource(tree, pos))

CallBlur == Call("Blur", BlurSource(tree, pos))

CallSlice == Call("Stack", SliceSource(tree, pos))

Next ==
    \/ CallColor
    \/ CallImage
    \/ CallOffset
    \/ CallScale
    \/ CallBlur
    \/ CallSlice

Spec == Init /\ [][Next]_vars

(***************************************************************************)
(* make (make.rs): the buffer is allocated, the pairs (n, chunk) are       *)
(* handed out one at a time by par_bridge to whichever worker asks next,   *)
(* each worker runs the closure on the pair it holds, and the buffer is    *)
(* returned when the pairs are exhausted and every closure has ended.  A   *)
(* panic in a closure is propagated to the caller: make returns nothing.   *)
(***************************************************************************)
\* A source whose sampling overflows at the first output pixel.
FarBlur == OffsetNew(BlurNew(ColorNode(Red), 2), <<I32_MIN + 1, 0>>)

MakeTrees ==
    {RedUnderBlue, BlueUnderImage, Rgba2x2, OffsetNew(Rgba2x2, <<1, 0>>),
     BlurNew(Luma1x2, 1), FarBlur}

Sizes == (0 .. MaxWidth) \X (0 .. MaxHeight)

Workers == 1 .. NumWorkers

\* The number of chunks of chunks_mut(N_CHANNELS) over a buffer of
\* width * height * N_CHANNELS bytes.
NChunks == (size[1] * size[2] * N_CHANNELS) \div N_CHANNELS

MakeInit ==
    /\ tree \in MakeTrees
    /\ pos = <<0, 0>>
    /\ build \in Builds
    /\ out = NoOut
    /\ size \in Sizes
    /\ buf = <<>>
    /\ next = 0
    /\ held = [w \in Workers |-> {}]
    /\ writes = <<>>
    /\ pc = "alloc"

\* let mut buf = vec![0; width * height * N_CHANNELS], seen as its chunks.
Alloc ==
    /\ pc = "alloc"
    /\ buf' = [n \in 1 .. NChunks |-> [c \in 1 .. N_CHANNELS |-> 0]]
    /\ writes' = [n \in 1 .. NChunks |-> 0]
    /\ pc' = "run"
    /\ UNCHANGED <<sampleVars, size, next, held>>

\* A worker takes the next pair (n, chunk) of the zipped iterator.
Pull(w) ==
    /\ pc = "run"
    /\ held[w] = {}
    /\ next < NChunks
    /\ held' = [held EXCEPT ![w] = {next}]
    /\ next' = next + 1
    /\ UNCHANGED <<sampleVars, size, buf, writes, pc>>

\* let x = n % width; let y = n / height;
PixelOf(n) == <<n % size[1], n \div size[2]>>

\* The closure's effect on the pair (n, chunk), given the sampled colour.
Store(w, n, r) ==
    IF r.fault
    THEN /\ pc' = "panicked"
         /\ UNCHANGED <<buf, writes>>
    ELSE /\ buf' = [buf EXCEPT ![n + 1] = IntoByteArray(r.col)]
         /\ writes' = [writes EXCEPT ![n + 1] = @ + 1]
         /\ UNCHANGED pc

\* The closure of for_each, run by the worker on the pair it holds.
Closure(w) ==
    /\ pc = "run"
    /\ held[w] # {}
    /\ \E n \in held[w] : Store(w, n, Source(tree, PixelOf(n)))
    /\ held' = [held EXCEPT ![w] = {}]
    /\ UNCHANGED <<sampleVars, size, next>>

\* RgbaImage::from_raw(width, height, buf).expect("the buffer fits")
Return ==
    /\ pc = "run"
    /\ next = NChunks
    /\ \A w \in Workers : held[w] = {}
    /\ pc' = "done"
    /\ UNCHANGED <<sampleVars, size, buf, next, held, writes>>

MakeNext ==
    \/ Alloc
    \/ \E w \in Workers : Pull(w)
    \/ \E w \in Workers : Closure(w)
    \/ Return

MakeSpec == MakeInit /\ [][MakeNext]_vars

(***************************************************************************)
(* The claims.                                                             *)
(***************************************************************************)
\* The bytes make must store for the output pixel (x, y).
BytesAt(x, y) == IntoByteArray(Source(tree, <<x, y>>).col)

\* C1: make returns width * height pixels of 4 bytes, and the pixel at
\* row-major index y * width + x holds the bytes of source((x, y)), for every
\* size, also when width # height.
C1_EveryPixelSampledAtItsCoordinate ==
    pc = "done" =>
      /\ Len(buf) = size[1] * size[2]
      /\ \A x \in 0 .. size[1] - 1 : \A y \in 0 .. size[2] - 1 :
           /\ Len(buf[y * size[1] + x + 1]) = N_CHANNELS
           /\ buf[y * size[1] + x + 1] = BytesAt(x, y)

\* The render of the end-to-end scenario has returned.
RedUnderBlueRendered ==
    pc = "done" /\ tree = RedUnderBlue /\ size = <<2, 2>>

\* C2 as claimed: opaque red under half-alpha blue, rendered at (2, 2), gives
\* the blend (127, 0, 127, 255) at each of the 4 pixels.
C2_RedUnderBlueRendersBlend ==
    RedUnderBlueRendered =>
      Len(buf) = 4 /\ \A n \in 1 .. 4 : buf[n] = <<127, 0, 127, U8_MAX>>

\* C2 as amended: opaque red under half-alpha blue, rendered at (2, 2), gives
\* red, (255, 0, 0, 255), at each of the 4 pixels: the stack stops at the
\* opaque first layer.
C2_RedUnderBlueRendersRed ==
    RedUnderBlueRendered =>
      Len(buf) = 4 /\ \A n \in 1 .. 4 : buf[n] = <<U8_MAX, 0, 0, U8_MAX>>

C2_Witness == RedUnderBlueRendered /\ Len(buf) = 4 /\ \A n \in 1 .. 4 : writes[n] = 1

\* The accumulator of a stack after its first i layers, from the layers'
\* own colours.
RECURSIVE Accumulated(_, _, _)
Accumulated(layers, p, i) ==
    IF i = 0 THEN Default
    ELSE Overlay(Accumulated(layers, p, i - 1), Source(layers[i], p).col)

\* C3: a stack queries its layers in sequence order, each at the query's
\* coordinate, and no layer after the accumulator's alpha has reached 1; when
\* the first layer is fully opaque the result is that layer's colour and the
\* first layer is the only one queried.
C3_StackStopsWhenOpaque ==
    (out.done /\ tree.kind = "Stack" /\ ~out.fault) =>
      /\ Len(out.trace) \in 1 .. Len(tree.layers)
      /\ \A i \in 1 .. Len(out.trace) :
           /\ out.trace[i] = <<i, pos>>
           /\ \A j \in 1 .. i - 1 : RLt(Accumulated(tree.layers, pos, j).a, One)
      /\ Source(tree.layers[1], pos).col.a = One =>
           /\ out.col = Source(tree.layers[1], pos).col
           /\ out.trace = <<<<1, pos>>>>

C3_Witness ==
    /\ out.done
    /\ tree.kind = "Stack"
    /\ Len(tree.layers) >= 2
    /\ Source(tree.layers[1], pos).col.a = One
    /\ Len(out.trace) = 1

\* C4: source() returns a colour at every i32 coordinate, for every tree: no
\* call panics.
C4_SamplingIsTotal == out.done => ~out.fault

\* Every pair handed out has been processed.
AllProcessed ==
    pc # "alloc" /\ next = NChunks /\ \A w \in Workers : held[w] = {}

\* C5: whatever the order in which the workers take and process the
\* pixels, no chunk is written twice, once every pixel index has been
\* processed every chunk has been written exactly once and the render
\* returns, and the buffer returned holds at index n the bytes of the
\* colour sampled for n.
C5_RenderIsDeterministic ==
    /\ \A n \in 1 .. Len(writes) : writes[n] <= 1
    /\ AllProcessed =>
         /\ pc \in {"run", "done"}
         /\ \A n \in 1 .. NChunks : writes[n] = 1
    /\ pc = "done" =>
         \A n \in 1 .. NChunks :
           buf[n] = IntoByteArray(Source(tree, PixelOf(n - 1)).col)

\* The one call an Offset or a Near Scale made on its child.
ChildCall == out.trace[1][2]

\* C6: an Offset by (dx, dy) queried at (x + dx, y + dy), the sums wrapping,
\* gives what its child gives at (x, y): the child is called once, at the
\* (x, y) whose wrapped translation is the queried coordinate, and its
\* outcome is handed back.
C6_OffsetInvertible ==
    (out.done /\ tree.kind = "Offset") =>
      /\ Len(out.trace) = 1
      /\ WrappingAdd(ChildCall[1], tree.offset[1]) = pos[1]
      /\ WrappingAdd(ChildCall[2], tree.offset[2]) = pos[2]
      /\ out.col = Source(tree.source, ChildCall).col
      /\ out.fault = Source(tree.source, ChildCall).fault

C6_Witness ==
    /\ out.done
    /\ tree.kind = "Offset"
    /\ Len(out.trace) = 1
    /\ AddOverflows(ChildCall[1], tree.offset[1])
    /\ out.col # Default

\* A Scale by 1.0 with the Near filter has been queried.
NearOne ==
    /\ out.done
    /\ tree.kind = "Scale"
    /\ tree.filter = "Near"
    /\ tree.factor = F32(1, 1, 0)

\* C7 as claimed: a Scale by 1.0 with the Near filter queries its child at
\* exactly (x, y), for every i32 x and y, and hands its outcome back.
C7_ScaleOneNearIsIdentity ==
    NearOne =>
      /\ out.trace = <<<<1, pos>>>>
      /\ out.col = Source(tree.source, pos).col

\* |v| <= 2^24: the integers an f32 holds exactly, without a gap.
ExactInF32(v) ==
    v <= Pow2(F32_MANTISSA_DIGITS) /\ v >= -Pow2(F32_MANTISSA_DIGITS)

\* C7 as amended: a Scale by 1.0 with the Near filter queries its child once
\* and hands its outcome back; the call is at exactly (x, y) when |x| and
\* |y| are at most 2^24, and a coordinate an f32 cannot hold is replaced by
\* its nearest f32: 2^24 + 1 by 2^24, -(2^24 + 1) by -2^24.
C7_ScaleOneNearIsIdentityUpTo2Pow24 ==
    NearOne =>
      /\ Len(out.trace) = 1
      /\ out.col = Source(tree.source, ChildCall).col
      /\ \A k \in 1 .. 2 :
           /\ ExactInF32(pos[k]) => ChildCall[k] = pos[k]
           /\ pos[k] = Pow2(F32_MANTISSA_DIGITS) + 1 =>
                ChildCall[k] = Pow2(F32_MANTISSA_DIGITS)
           /\ pos[k] = -Pow2(F32_MANTISSA_DIGITS) - 1 =>
                ChildCall[k] = -Pow2(F32_MANTISSA_DIGITS)

C7_Witness ==
    /\ NearOne
    /\ pos[1] = Pow2(F32_MANTISSA_DIGITS) + 1
    /\ ExactInF32(pos[2])
    /\ out.col # Default

\* C8: a Blur of radius 0 gives the default colour at every coordinate,
\* whether or not its child reports borders, without a call on the child and
\* without a panic.
C8_BlurZeroIsDefault ==
    (out.done /\ tree.kind = "Blur" /\ tree.radius = 0) =>
      /\ out.col = Default
      /\ ~out.fault
      /\ out.trace = <<>>

C8_Witness ==
    /\ out.done
    /\ tree = BlurNew(Rgba2x2, 0)
    /\ pos = <<0, 0>>
    /\ Source(tree.source, pos).col # Default

\* The value of an f32 with a fraction, |c| = m / 2^(-e), as the integer
\* part of |c| and the fraction of |c|.
WholeOfAbs(c) == IF c.e >= 0 \/ c.m = 0 THEN 0 ELSE c.m \div Pow2(-c.e)

FractOfAbs(c) ==
    IF c.e >= 0 \/ c.m = 0 THEN Zero
    ELSE RNorm(c.m - WholeOfAbs(c) * Pow2(-c.e), Pow2(-c.e))

\* c rounded toward zero, and c rounded down, for an f32 c; when c has no
\* fraction both are c itself, saturated to the i32 range.
TowardZero(c) ==
    IF c.e >= 0 \/ c.m = 0 THEN F32ToI32(c) ELSE c.sgn * WholeOfAbs(c)

Floor(c) ==
    IF c.e >= 0 \/ c.m = 0 THEN F32ToI32(c)
    ELSE IF c.sgn > 0 \/ FractOfAbs(c) = Zero THEN c.sgn * WholeOfAbs(c)
    ELSE -WholeOfAbs(c) - 1

\* The two points and the weight of an axis, from its first point a and the
\* fraction f of |c|.
AxisRule(a, f) ==
    CASE RLt(f, Half) -> <<a, WrappingSub(a, 1), RSub(Half, f)>>
      [] f = Half -> <<a, a, Zero>>
      [] OTHER -> <<a, WrappingAdd(a, 1), RSub(f, Half)>>

\* A Scale with the Linear filter has been queried.
LinearQueried == out.done /\ tree.kind = "Scale" /\ tree.filter = "Linear"

\* The child-space coordinate of axis k of the query.
ChildCoord(k) == ScaleCoord(tree, pos[k])

\* An axis is a single sample exactly when the fraction of |c| is 0.5, so
\* the child is called once exactly when that holds on both axes.
SingleExactlyAtHalf ==
    ~out.fault =>
      Len(out.trace) =
        (IF FractOfAbs(ChildCoord(1)) = Half THEN 1 ELSE 2)
          * (IF FractOfAbs(ChildCoord(2)) = Half THEN 1 ELSE 2)

C10_BordersAreSound ==
    (out.done /\ ~out.fault /\ Borders(tree).some /\ ~Contains(Borders(tree), pos))
      => out.col = Default

====
